---- MODULE Spec2Model ----
(***************************************************************************)
(* Model of koishi-plugin-pinyin: the Pinyin service start-up              *)
(* (src/src/downloader.ts, class Pinyin), its platform resolution          *)
(* (getNativeBinding, isMusl) and the artifact acquisition pipeline        *)
(* (handleFile, extract).  The repository holds a second service           *)
(* implementation (src/unnamed/part_000, class pinyin) whose                *)
(* getNativeBinding is a nested switch; `impl` says which one is installed. *)
(*                                                                         *)
(* Strings are sequences of tokens: a template literal is the              *)
(* concatenation of its literal parts and of the tokens of the             *)
(* interpolated values, so "message contains X" is an infix test.          *)
(* Every asynchronous function is cut at its awaits: one action per        *)
(* continuation, each running to the next await or to the settlement of    *)
(* start().                                                                *)
(***************************************************************************)
EXTENDS Naturals, Sequences, FiniteSets, TLC

\* Bounds of the model.
MaxStarts == 3

\* Two service instances of the same host process, sharing nodeDir.
Procs == {"A", "B"}

VARIABLES
  impl,          \* the service implementation installed: "table" or "switch"
  platform,      \* process.platform
  arch,          \* process.arch
  report,        \* process.report: "unavailable", or whether its header has glibcVersionRuntime
  ldd,           \* outcome of `which ldd` + readFileSync: "fail", or the kind of text read
  disk,          \* file system under nodeDir: path -> "partial" | "complete"
  gunzipFailed,  \* history: some extraction hit a corrupt gzip stream
  acquired,      \* history: some handleFile call resolved after unpacking the published archive
  starts,        \* number of start() calls made so far
  svc            \* per service: the state of its current start() call

vars == <<impl, platform, arch, report, ldd, disk, gunzipFailed, acquired, starts, svc>>

----------------------------------------------------------------------------
\* Strings and JS values

IsInfix(u, m) ==
  \E i \in 0..Len(m) : i + Len(u) <= Len(m) /\ SubSeq(m, i + 1, i + Len(u)) = u

\* String.prototype.replace(a, b) with a string pattern: first occurrence only.
ReplaceFirst(s, a, b) ==
  IF \E i \in 1..Len(s) : s[i] = a
  THEN LET i == CHOOSE k \in 1..Len(s) : s[k] = a /\ \A j \in 1..(k - 1) : s[j] # a
       IN [s EXCEPT ![i] = b]
  ELSE s

Undefined == [t |-> "undefined", v |-> <<>>]
Str(s) == [t |-> "string", v |-> s]
\* `!x` for a value that is undefined or a string
Falsy(x) == x.t = "undefined" \/ x.v = <<>>

\* Thrown values: instances of an Error class, or (extract's rejections) plain strings.
NoError == [class |-> "none", payload |-> <<>>]
UnsupportedError(m) == [class |-> "UnsupportedError", payload |-> m]
DownloadError(m) == [class |-> "DownloadError", payload |-> m]
Error(m) == [class |-> "Error", payload |-> m]
TypeError(m) == [class |-> "TypeError", payload |-> m]
StringValue(m) == [class |-> "string", payload |-> m]
\* `${e.message}`: a string has no message property
Message(e) == IF e.class = "string" THEN <<"undefined">> ELSE e.payload
\* `${err}` inside extract: Error.prototype.toString
ErrToString(e) == IF e.class = "string" THEN e.payload ELSE <<e.class, ": ">> \o e.payload

----------------------------------------------------------------------------
\* Host inputs

Platforms == {"android", "win32", "darwin", "freebsd", "linux", "sunos"}
Archs == {"arm64", "arm", "x64", "ia32", "ppc64"}
Reports == {"unavailable", "glibc", "noglibc"}
LddOutcomes == {"fail", "musl", "glibc"}

NodeDir == <<"node-rs/pinyin">>

Impls == {"table", "switch"}

\* isMusl run without its try/catch result: a failed ldd probe answers glibc.
isMuslRunCatchFalse ==
  IF report = "unavailable"
  THEN [ran |-> TRUE, lddRead |-> TRUE, musl |-> ldd = "musl"]
  ELSE [ran |-> TRUE, lddRead |-> FALSE, musl |-> report # "glibc"]

\* One run of isMusl(): its result, and whether it went to `which ldd`.
isMuslRun ==
  IF report = "unavailable"
  THEN [ran |-> TRUE, lddRead |-> TRUE, musl |-> IF ldd = "fail" THEN TRUE ELSE ldd = "musl"]
  ELSE [ran |-> TRUE, lddRead |-> FALSE, musl |-> report # "glibc"]

NoProbe == [ran |-> FALSE, lddRead |-> FALSE, musl |-> FALSE]

isMusl == isMuslRun.musl

\* platformArchMap with the two linux arm64 identifiers exchanged.
platformArchMapArm64Swapped ==
  [android |-> [arm64 |-> <<"pinyin", ".", "android", "-", "arm64">>,
                arm   |-> <<"pinyin", ".", "android", "-", "arm", "-", "eabi">>],
   win32   |-> [x64   |-> <<"pinyin", ".", "win32", "-", "x64", "-", "msvc">>,
                ia32  |-> <<"pinyin", ".", "win32", "-", "ia32", "-", "msvc">>,
                arm64 |-> <<"pinyin", ".", "win32", "-", "arm64", "-", "msvc">>],
   darwin  |-> [x64   |-> <<"pinyin", ".", "darwin", "-", "x64">>,
                arm64 |-> <<"pinyin", ".", "darwin", "-", "arm64">>],
   freebsd |-> [x64   |-> <<"pinyin", ".", "freebsd", "-", "x64">>],
   linux   |-> [x64   |-> IF isMusl
                          THEN <<"pinyin", ".", "linux", "-", "x64", "-", "musl">>
                          ELSE <<"pinyin", ".", "linux", "-", "x64", "-", "gnu">>,
                arm64 |-> IF isMusl
                          THEN <<"pinyin", ".", "linux", "-", "arm64", "-", "gnu">>
                          ELSE <<"pinyin", ".", "linux", "-", "arm64", "-", "musl">>,
                arm   |-> <<"pinyin", ".", "linux", "-", "arm", "-", "gnueabihf">>]]

platformArchMap ==
  [android |-> [arm64 |-> <<"pinyin", ".", "android", "-", "arm64">>,
                arm   |-> <<"pinyin", ".", "android", "-", "arm", "-", "eabi">>],
   win32   |-> [x64   |-> <<"pinyin", ".", "win32", "-", "x64", "-", "msvc">>,
                ia32  |-> <<"pinyin", ".", "win32", "-", "ia32", "-", "msvc">>,
                arm64 |-> <<"pinyin", ".", "win32", "-", "arm64", "-", "msvc">>],
   darwin  |-> [x64   |-> <<"pinyin", ".", "darwin", "-", "x64">>,
                arm64 |-> <<"pinyin", ".", "darwin", "-", "arm64">>],
   freebsd |-> [x64   |-> <<"pinyin", ".", "freebsd", "-", "x64">>],
   linux   |-> [x64   |-> IF isMusl
                          THEN <<"pinyin", ".", "linux", "-", "x64", "-", "musl">>
                          ELSE <<"pinyin", ".", "linux", "-", "x64", "-", "gnu">>,
                arm64 |-> IF isMusl
                          THEN <<"pinyin", ".", "linux", "-", "arm64", "-", "musl">>
                          ELSE <<"pinyin", ".", "linux", "-", "arm64", "-", "gnu">>,
                arm   |-> <<"pinyin", ".", "linux", "-", "arm", "-", "gnueabihf">>]]

\* resolveNodeName with the second message naming only the architecture.
resolveNodeNameArchOnly(plat, ar) ==
  IF plat \notin DOMAIN platformArchMap
  THEN [ok |-> FALSE, nodeName |-> <<>>,
        err |-> UnsupportedError(<<"Unsupported OS: ", plat, ", architecture: ", ar>>)]
  ELSE IF ar \notin DOMAIN platformArchMap[plat]
  THEN [ok |-> FALSE, nodeName |-> <<>>,
        err |-> UnsupportedError(<<"Unsupported architecture: ", ar>>)]
  ELSE [ok |-> TRUE, nodeName |-> platformArchMap[plat][ar], err |-> NoError]

\* Lines 250-261 of getNativeBinding: the identifier, or the UnsupportedError thrown.
resolveNodeName(plat, ar) ==
  IF plat \notin DOMAIN platformArchMap
  THEN [ok |-> FALSE, nodeName |-> <<>>,
        err |-> UnsupportedError(<<"Unsupported OS: ", plat, ", architecture: ", ar>>)]
  ELSE IF ar \notin DOMAIN platformArchMap[plat]
  THEN [ok |-> FALSE, nodeName |-> <<>>,
        err |-> UnsupportedError(<<"Unsupported architecture on ", plat, ": ", ar>>)]
  ELSE [ok |-> TRUE, nodeName |-> platformArchMap[plat][ar], err |-> NoError]

\* The OS names the nested switch puts in its messages.
switchOsName ==
  [android |-> "Android ", win32 |-> "Windows: ", darwin |-> "macOS: ",
   freebsd |-> "FreeBSD: ", linux |-> "Linux: "]

\* The architectures each case of the nested switch accepts.
switchArchs ==
  [android |-> {"arm64", "arm"}, win32 |-> {"x64", "ia32", "arm64"},
   darwin |-> {"x64", "arm64"}, freebsd |-> {"x64"}, linux |-> {"x64", "arm64", "arm"}]

\* The nodeName each inner case assigns.
switchNodeName(plat, ar) ==
  CASE plat = "android" /\ ar = "arm64" -> <<"pinyin", ".", "android", "-", "arm64">>
    [] plat = "android" /\ ar = "arm" -> <<"pinyin", ".", "android", "-", "arm", "-", "eabi">>
    [] plat = "win32" /\ ar = "x64" -> <<"pinyin", ".", "win32", "-", "x64", "-", "msvc">>
    [] plat = "win32" /\ ar = "ia32" -> <<"pinyin", ".", "win32", "-", "ia32", "-", "msvc">>
    [] plat = "win32" /\ ar = "arm64" -> <<"pinyin", ".", "win32", "-", "arm64", "-", "msvc">>
    [] plat = "darwin" /\ ar = "x64" -> <<"pinyin", ".", "darwin", "-", "x64">>
    [] plat = "darwin" /\ ar = "arm64" -> <<"pinyin", ".", "darwin", "-", "arm64">>
    [] plat = "freebsd" /\ ar = "x64" -> <<"pinyin", ".", "freebsd", "-", "x64">>
    [] plat = "linux" /\ ar = "x64" ->
         IF isMusl THEN <<"pinyin", ".", "linux", "-", "x64", "-", "musl">>
                   ELSE <<"pinyin", ".", "linux", "-", "x64", "-", "gnu">>
    [] plat = "linux" /\ ar = "arm64" ->
         IF isMusl THEN <<"pinyin", ".", "linux", "-", "arm64", "-", "musl">>
                   ELSE <<"pinyin", ".", "linux", "-", "arm64", "-", "gnu">>
    [] plat = "linux" /\ ar = "arm" -> <<"pinyin", ".", "linux", "-", "arm", "-", "gnueabihf">>

\* resolveNodeNameSwitch with the FreeBSD case accepting every architecture.
resolveNodeNameSwitchFreebsdAny(plat, ar) ==
  IF plat \notin DOMAIN switchArchs
  THEN [ok |-> FALSE, nodeName |-> <<>>,
        err |-> UnsupportedError(<<"Unsupported OS: ", plat, ", architecture: ", ar>>)]
  ELSE IF plat = "freebsd"
  THEN [ok |-> TRUE, nodeName |-> switchNodeName(plat, "x64"), err |-> NoError]
  ELSE IF ar \notin switchArchs[plat]
  THEN [ok |-> FALSE, nodeName |-> <<>>,
        err |-> UnsupportedError(<<"Unsupported architecture on ", switchOsName[plat], ar>>)]
  ELSE [ok |-> TRUE, nodeName |-> switchNodeName(plat, ar), err |-> NoError]

\* The nested switch of part_000, lines 139-222.
resolveNodeNameSwitch(plat, ar) ==
  IF plat \notin DOMAIN switchArchs
  THEN [ok |-> FALSE, nodeName |-> <<>>,
        err |-> UnsupportedError(<<"Unsupported OS: ", plat, ", architecture: ", ar>>)]
  ELSE IF ar \notin switchArchs[plat]
  THEN [ok |-> FALSE, nodeName |-> <<>>,
        err |-> UnsupportedError(<<"Unsupported architecture on ", switchOsName[plat], ar>>)]
  ELSE [ok |-> TRUE, nodeName |-> switchNodeName(plat, ar), err |-> NoError]

\* The resolution of the installed implementation.
resolve(im, plat, ar) ==
  IF im = "table" THEN resolveNodeName(plat, ar) ELSE resolveNodeNameSwitch(plat, ar)

\* Whether the resolution calls isMusl(): the table evaluates it while it is
\* built, the switch only in its linux x64 and arm64 cases.
callsIsMusl(im, plat, ar) ==
  im = "table" \/ (plat = "linux" /\ ar \in {"x64", "arm64"})

\* The http argument getNativeBinding passes to handleFile: this.ctx.http
\* (downloader.ts line 268), none (part_000 line 227).
httpArgument(im) == IF im = "table" THEN "ctx.http" ELSE "undefined"

\* nodePath without the 'package' directory of the archive.
nodePathFlat(nodeDir, name) == nodeDir \o <<"/">> \o name \o <<".node">>

\* path.join(nodeDir, 'package', nodeName + '.node')
nodePath(nodeDir, name) == nodeDir \o <<"/", "package", "/">> \o name \o <<".node">>

\* nodeName.replace('.', '-')
packageName(name) == ReplaceFirst(name, ".", "-")

\* handleFile's url
metadataUrl(name) ==
  <<"https://registry.npmjs.com/@napi-rs/">> \o packageName(name) \o <<"/latest">>

\* The tarball the registry's `latest` document of a package points to.
tarballOf(name) ==
  <<"https://registry.npmjs.org/@napi-rs/">> \o packageName(name) \o <<".tgz">>

\* nodejs-file-downloader: the file lands in `directory`, named after the url.
downloadedFile(dir, name) == dir \o <<"/">> \o packageName(name) \o <<".tgz">>

\* path.dirname: the path up to its last separator
dirname(path) ==
  LET seps == {i \in 1..Len(path) : path[i] = "/"}
      last == CHOOSE i \in seps : \A j \in seps : j <= i
  IN IF seps = {} THEN <<".">> ELSE SubSeq(path, 1, last - 1)

\* The one entry of a published @napi-rs/pinyin-<target> tarball, and an
\* archive that does not hold the binary.
publishedEntry(name) ==
  <<"package", "/">> \o ReplaceFirst(packageName(name), "-", ".") \o <<".node">>
strayEntry == <<"package", "/", "README.md">>

----------------------------------------------------------------------------
\* The state of one start() call

Unassigned == [pinyin |-> "unassigned", asyncPinyin |-> "unassigned", compare |-> "unassigned"]

NewCall ==
  [pc |-> "mkdir",            \* which await the call is suspended at, or how it settled
   nodeName |-> <<>>,
   probe |-> NoProbe,         \* history: the run of isMusl() in this call
   localFileExisted |-> FALSE,
   sawAcquired |-> FALSE,     \* history: `acquired` when existsSync ran
   clobbered |-> FALSE,       \* another extraction reopened the file this one is writing
   fault |-> FALSE,           \* history: the environment failed this call, or a
                              \* concurrent extraction reopened its file
   stages |-> <<>>,           \* history: stages of the acquisition, in order
   metaResp |-> "none",       \* history: what the registry GET produced
   tarballUrl |-> Undefined,
   downloadStatus |-> "none",
   filePath |-> <<>>,
   entry |-> <<>>,            \* the archive's entry being unpacked
   wrote |-> FALSE,           \* tar has opened the entry's file for writing
   extractFailure |-> "none", \* history: the stream that emitted 'error'
   hfError |-> NoError,       \* history: what handleFile rejected with
   gnbError |-> NoError,      \* history: what getNativeBinding rejected with
   thrown |-> NoError,        \* what start() rejected with
   members |-> Unassigned,    \* this.pinyin, this.asyncPinyin, this.compare
   logged |-> {}]

Settled == {"started", "rejected"}

\* What require(nodePath) can evaluate to: the exports of the addon.
FullExports == [pinyin |-> "function", asyncPinyin |-> "function", compare |-> "function"]
Exports ==
  {FullExports,
   [pinyin |-> "function", asyncPinyin |-> "undefined", compare |-> "function"],
   [pinyin |-> "undefined", asyncPinyin |-> "undefined", compare |-> "undefined"]}
LoadFailure == Error(<<"Cannot load native module">>)

fileState(d, path) == IF path \in DOMAIN d THEN d[path] ELSE "absent"

\* require(nodePath): throws unless a whole file is there; a whole file loads or not.
requireOutcomes(d, path) ==
  IF fileState(d, path) = "complete"
  THEN {[ok |-> TRUE, exports |-> x, err |-> NoError] : x \in Exports}
       \cup {[ok |-> FALSE, exports |-> Unassigned, err |-> LoadFailure]}
  ELSE {[ok |-> FALSE, exports |-> Unassigned, err |-> LoadFailure]}

----------------------------------------------------------------------------
\* start(): lines 198-220

\* startCatch without the rethrow: start() goes on to destructure null.
startCatchSwallow(c, e) ==
  [c EXCEPT !.pc = "rejected",
            !.thrown = TypeError(<<"Cannot destructure property 'pinyin' of 'null'">>),
            !.logged = @ \cup (IF e.class = "UnsupportedError" THEN {"unsupported"} ELSE {})
                         \cup (IF e.class = "DownloadError" THEN {"download"} ELSE {})]

\* The catch of start(): log by class, rethrow.
startCatch(c, e) ==
  [c EXCEPT !.pc = "rejected",
            !.thrown = e,
            !.logged = @ \cup (IF e.class = "UnsupportedError" THEN {"unsupported"} ELSE {})
                         \cup (IF e.class = "DownloadError" THEN {"download"} ELSE {})]

\* getNativeBinding rejected with e.
gnbRejected(c, e) == startCatch([c EXCEPT !.gnbError = e], e)

\* getNativeBinding resolved with the exports: destructuring assignment, success log.
startResolved(c, exports) ==
  [c EXCEPT !.pc = "started",
            !.members = exports,
            !.logged = @ \cup {"success"}]

\* The catch of getNativeBinding: lines 270-276.
getNativeBindingCatch(c, e) ==
  LET c1 == [c EXCEPT !.logged = @ \cup {"processing"}]
  IN IF e.class = "DownloadError"
     THEN gnbRejected(c1, e)
     ELSE gnbRejected(c1, Error(<<"Failed to use ">> \o nodePath(NodeDir, c.nodeName)
                                 \o <<" on ", platform, "-", arch>>))

\* nativeBinding = require(nodePath); return nativeBinding
loadBinding(c, r) ==
  IF r.ok THEN startResolved(c, r.exports) ELSE getNativeBindingCatch(c, r.err)

----------------------------------------------------------------------------
\* handleFile: lines 16-64, and extract: lines 72-108

Stage(c, s) == [c EXCEPT !.stages = @ \o <<s>>]

Fault(c, b) == [c EXCEPT !.fault = @ \/ b]

\* handleFile rejected with e, inside the try of getNativeBinding.
handleFileRejected(c, e) ==
  getNativeBindingCatch([Stage(c, "Failed") EXCEPT !.hfError = e], e)

\* fetchCatch issuing the GET again instead of rejecting.
fetchCatchRetry(c, e) == [Stage(c, "FetchingMetadata") EXCEPT !.pc = "fetching"]

\* fetchCatch rethrowing what it caught.
fetchCatchRethrow(c, e) == handleFileRejected(c, e)

\* The catch around http.get: lines 33-36.
fetchCatch(c, e) ==
  handleFileRejected(c, DownloadError(<<"Failed to fetch from URL: ">> \o Message(e)))

\* The catch around download and extract: lines 60-63.
downloadCatch(c, e) ==
  handleFileRejected(c, DownloadError(<<"Failed to download the binary file: ">> \o Message(e)))

\* What http.get(url) can do: reject, or resolve with a body.
GetRejections ==
  [network |-> Error(<<"getaddrinfo ENOTFOUND registry.npmjs.com">>),
   status  |-> Error(<<"Request failed with status code 404">>)]
Responses == {"network", "status", "nodist", "notarball", "emptytarball", "tarball"}

\* res.dist.tarball for the bodies that have a dist object
distTarball(c, resp) ==
  CASE resp = "notarball" -> Undefined
    [] resp = "emptytarball" -> Str(<<>>)
    [] OTHER -> Str(tarballOf(c.nodeName))

\* shouldAcquire ignoring the existence check.
shouldAcquireAlways(c) == TRUE

\* Line 267: `if (!localFileExisted)`
shouldAcquire(c) == ~c.localFileExisted

\* handleFile up to `await http.get(url)`; without an http object the call
\* itself throws a TypeError inside the try.
handleFile(c, http) ==
  IF http = "undefined"
  THEN fetchCatch([Stage(c, "FetchingMetadata") EXCEPT !.metaResp = "nohttp"],
                  TypeError(<<"Cannot read properties of undefined (reading 'get')">>))
  ELSE [Stage(c, "FetchingMetadata") EXCEPT !.pc = "fetching"]

\* handleFile from the settlement of http.get to `await downloader.download()`.
afterGet(c, resp) ==
  LET c1 == [c EXCEPT !.metaResp = resp]
  IN IF resp \in DOMAIN GetRejections
     THEN fetchCatch(c1, GetRejections[resp])
     ELSE IF resp = "nodist"
     THEN fetchCatch(c1, TypeError(<<"Cannot read properties of undefined (reading 'tarball')">>))
     ELSE LET c2 == [c1 EXCEPT !.tarballUrl = distTarball(c, resp)]
          IN IF Falsy(c2.tarballUrl)
             THEN handleFileRejected(c2, DownloadError(<<"Failed to get the binary url from ">>
                                                       \o metadataUrl(c.nodeName)))
             ELSE [Stage(c2, "Downloading") EXCEPT !.pc = "downloading"]

DownloadOutcomes == {"COMPLETE", "ABORTED", "throws"}
ExtractStreams == {"read", "gunzip", "tar"}

\* The strings extract rejects with: lines 84-94 and 103-105.
extractRejection(stream, err) ==
  StringValue((CASE stream = "read" -> <<"An error occurred while reading the file: ">>
                 [] stream = "gunzip" -> <<"An error occurred while gunzipping the file: ">>
                 [] stream = "tar" -> <<"An error occurred during extraction: ">>
                 [] OTHER -> <<"An unexpected error occurred during the extraction process: ">>)
              \o ErrToString(err))

StreamError(stream) ==
  CASE stream = "read" -> Error(<<"EIO: i/o error, read">>)
    [] stream = "gunzip" -> Error(<<"incorrect header check">>)
    [] stream = "tar" -> Error(<<"TAR_BAD_ARCHIVE: Unrecognized archive format">>)
    [] OTHER -> Error(<<"EMFILE: too many open files">>)

\* afterDownload extracting whatever status download() resolved with.
afterDownloadAnyStatus(c, out, entry, setupThrows) ==
  IF out = "throws"
  THEN downloadCatch(c, Error(<<"ECONNRESET">>))
  ELSE [Stage([c EXCEPT !.downloadStatus = out,
                        !.filePath = downloadedFile(NodeDir, c.nodeName)], "Extracting")
          EXCEPT !.pc = "extracting", !.entry = entry]

\* handleFile from the settlement of download() to the stream events of extract.
afterDownload(c, out, entry, setupThrows) ==
  IF out = "throws"
  THEN downloadCatch(c, Error(<<"ECONNRESET">>))
  ELSE LET c1 == [c EXCEPT !.downloadStatus = out,
                           !.filePath = downloadedFile(NodeDir, c.nodeName)]
       IN IF out = "COMPLETE"
          THEN LET c2 == Stage(c1, "Extracting")
               IN IF setupThrows
                  THEN downloadCatch([c2 EXCEPT !.extractFailure = "setup"],
                                     extractRejection("setup", StreamError("setup")))
                  ELSE [c2 EXCEPT !.pc = "extracting", !.entry = entry]
          ELSE downloadCatch(c1, DownloadError(<<"Download was aborted">>))

\* A stream of extract emitted 'error'.
extractFailed(c, stream) ==
  downloadCatch([c EXCEPT !.extractFailure = stream],
                extractRejection(stream, StreamError(stream)))

\* Where tar.extract({cwd: outputDir}) puts the entry.
unpackedPath(c) == dirname(c.filePath) \o <<"/">> \o c.entry

\* extract resolved: success log, handleFile returns, the binary is loaded.
afterExtract(c, r) == loadBinding(Stage(c, "Done"), r)

----------------------------------------------------------------------------
\* Actions

Init ==
  /\ impl \in Impls
  /\ platform \in Platforms
  /\ arch \in Archs
  /\ report \in (IF platform = "linux" THEN Reports ELSE {"noglibc"})
  /\ ldd \in (IF platform = "linux" THEN LddOutcomes ELSE {"fail"})
  /\ disk = [x \in {} |-> "absent"]
  /\ gunzipFailed = FALSE
  /\ acquired = FALSE
  /\ starts = 0
  /\ svc = [p \in Procs |-> [NewCall EXCEPT !.pc = "idle"]]

\* A service instance is constructed and start() runs to `await mkdir`.
start(p) ==
  /\ svc[p].pc \in {"idle"} \cup Settled
  /\ starts < MaxStarts
  /\ starts' = starts + 1
  /\ svc' = [svc EXCEPT ![p] = NewCall]
  /\ UNCHANGED <<impl, platform, arch, report, ldd, disk, gunzipFailed, acquired>>

\* mkdir rejects: start() rejects outside its try.
mkdirFails(p) ==
  /\ svc[p].pc = "mkdir"
  /\ svc' = [svc EXCEPT ![p] = [@ EXCEPT !.pc = "rejected",
                                         !.fault = TRUE,
                                         !.thrown = Error(<<"EACCES: permission denied, mkdir">>)]]
  /\ UNCHANGED <<impl, platform, arch, report, ldd, disk, gunzipFailed, acquired, starts>>

\* mkdir resolved: getNativeBinding runs to its first await, or to its end.
getNativeBinding(p) ==
  /\ svc[p].pc = "mkdir"
  /\ LET res == resolve(impl, platform, arch)
         c0 == [svc[p] EXCEPT !.probe = IF callsIsMusl(impl, platform, arch)
                                        THEN isMuslRun ELSE NoProbe]
     IN IF ~res.ok
        THEN svc' = [svc EXCEPT ![p] = gnbRejected(c0, res.err)]
        ELSE LET path == nodePath(NodeDir, res.nodeName)
                 existed == path \in DOMAIN disk
                 c == [c0 EXCEPT !.nodeName = res.nodeName,
                                     !.localFileExisted = existed,
                                     !.sawAcquired = acquired,
                                     !.stages = <<"CheckingLocal">>]
             IN IF shouldAcquire(c)
                THEN svc' = [svc EXCEPT ![p] = handleFile(c, httpArgument(impl))]
                ELSE \E r \in requireOutcomes(disk, path) :
                       svc' = [svc EXCEPT ![p] =
                                 loadBinding(Stage(Fault(c, r.exports # FullExports), "Done"), r)]
  /\ UNCHANGED <<impl, platform, arch, report, ldd, disk, gunzipFailed, acquired, starts>>

httpGetSettles(p) ==
  /\ svc[p].pc = "fetching"
  /\ \E resp \in Responses :
       svc' = [svc EXCEPT ![p] = afterGet(Fault(@, resp # "tarball"), resp)]
  /\ UNCHANGED <<impl, platform, arch, report, ldd, disk, gunzipFailed, acquired, starts>>

downloadSettles(p) ==
  /\ svc[p].pc = "downloading"
  /\ \E out \in DownloadOutcomes, setupThrows \in BOOLEAN,
        entry \in {publishedEntry(svc[p].nodeName), strayEntry} :
       svc' = [svc EXCEPT ![p] =
                 afterDownload(Fault(@, out # "COMPLETE" \/ setupThrows
                                        \/ entry # publishedEntry(svc[p].nodeName)),
                               out, entry, setupThrows)]
  /\ UNCHANGED <<impl, platform, arch, report, ldd, disk, gunzipFailed, acquired, starts>>

\* tar opens the entry's file under outputDir and writes the first chunks.
tarWritesEntry(p) ==
  /\ svc[p].pc = "extracting"
  /\ ~svc[p].wrote
  /\ disk' = (unpackedPath(svc[p]) :> "partial") @@ disk
  /\ svc' = [q \in Procs |->
               IF q = p
               THEN [svc[q] EXCEPT !.wrote = TRUE]
               ELSE IF /\ svc[q].pc = "extracting"
                       /\ svc[q].wrote
                       /\ unpackedPath(svc[q]) = unpackedPath(svc[p])
               THEN [svc[q] EXCEPT !.clobbered = TRUE, !.fault = TRUE]
               ELSE svc[q]]
  /\ UNCHANGED <<impl, platform, arch, report, ldd, gunzipFailed, acquired, starts>>

extractFails(p) ==
  /\ svc[p].pc = "extracting"
  /\ \E stream \in ExtractStreams :
       /\ svc' = [svc EXCEPT ![p] = extractFailed(Fault(@, TRUE), stream)]
       /\ gunzipFailed' = (gunzipFailed \/ stream = "gunzip")
  /\ UNCHANGED <<impl, platform, arch, report, ldd, disk, acquired, starts>>

\* 'finish' of the tar stream.  The file is whole unless another extraction
\* reopened it while this one was writing: then what the path holds is up to
\* the other writer.
extractFinishes(p) ==
  /\ svc[p].pc = "extracting"
  /\ svc[p].wrote
  /\ LET path == unpackedPath(svc[p])
         raced == svc[p].clobbered
     IN \E st \in (IF raced THEN {"partial", "complete"} ELSE {"complete"}) :
          /\ disk' = (path :> st) @@ disk
          /\ \E r \in requireOutcomes(disk', nodePath(NodeDir, svc[p].nodeName)) :
               svc' = [svc EXCEPT ![p] = afterExtract(Fault(@, r.exports # FullExports), r)]
  /\ acquired' = (acquired \/ svc[p].entry = publishedEntry(svc[p].nodeName))
  /\ UNCHANGED <<impl, platform, arch, report, ldd, gunzipFailed, starts>>

Next ==
  \E p \in Procs :
    \/ start(p)
    \/ mkdirFails(p)
    \/ getNativeBinding(p)
    \/ httpGetSettles(p)
    \/ downloadSettles(p)
    \/ tarWritesEntry(p)
    \/ extractFails(p)
    \/ extractFinishes(p)

Spec == Init /\ [][Next]_vars

----------------------------------------------------------------------------
\* Claims

HappyPath == <<"CheckingLocal", "FetchingMetadata", "Downloading", "Extracting", "Done">>
FastPath == <<"CheckingLocal", "Done">>
Has(stages, s) == \E i \in 1..Len(stages) : stages[i] = s

\* getNativeBinding has run its resolution in the current call of p.
Resolved(p) == svc[p].stages # <<>> \/ svc[p].gnbError # NoError

\* The support table the specification fixes: 11 (OS, architecture) pairs.
SupportedPairs ==
  {<<"android", "arm64">>, <<"android", "arm">>,
   <<"win32", "x64">>, <<"win32", "ia32">>, <<"win32", "arm64">>,
   <<"darwin", "x64">>, <<"darwin", "arm64">>,
   <<"freebsd", "x64">>,
   <<"linux", "x64">>, <<"linux", "arm64">>, <<"linux", "arm">>}

\* C1: resolution succeeds exactly on the 11 pairs of the support table, the
\* identifiers of different pairs are pairwise distinct, and on every other
\* pair getNativeBinding throws an UnsupportedError whose message contains
\* both the OS value and the architecture value.  (The host never changes, so
\* the table is compared pair against pair in the initial states, which hold
\* every host and every libc probe.)
C1_Resolution ==
  /\ \A p \in Procs :
       (impl = "table" /\ Resolved(p)) =>
         IF <<platform, arch>> \in SupportedPairs
         THEN /\ svc[p].nodeName # <<>>
              /\ svc[p].gnbError.class # "UnsupportedError"
         ELSE /\ svc[p].nodeName = <<>>
              /\ svc[p].gnbError.class = "UnsupportedError"
              /\ IsInfix(<<platform>>, svc[p].gnbError.payload)
              /\ IsInfix(<<arch>>, svc[p].gnbError.payload)
  /\ starts = 0 =>
     \A h1 \in Platforms \X Archs, h2 \in Platforms \X Archs :
       LET r1 == resolveNodeName(h1[1], h1[2])
           r2 == resolveNodeName(h2[1], h2[2])
       IN /\ r1.ok <=> h1 \in SupportedPairs
          /\ (r1.ok /\ r2.ok /\ h1 # h2) => r1.nodeName # r2.nodeName

\* C1 witness: a call on a known OS with an architecture its sub-table lacks
\* was rejected by the resolution.
C1_Witness ==
  \E p \in Procs :
    /\ impl = "table"
    /\ platform = "freebsd" /\ arch = "arm64"
    /\ svc[p].pc = "rejected"
    /\ svc[p].thrown.class = "UnsupportedError"

\* C2: when the expected file exists at the time of the check, handleFile is
\* not called: no registry GET, no download, and the file is loaded at once.
C2_NoNetworkWhenPresent ==
  \A p \in Procs :
    svc[p].localFileExisted =>
      /\ svc[p].stages = FastPath
      /\ svc[p].metaResp = "none"
      /\ svc[p].downloadStatus = "none"
      /\ svc[p].pc \in Settled

\* C2 witness: a call found the file and started the service from it.
C2_Witness ==
  \E p \in Procs :
    svc[p].localFileExisted /\ svc[p].pc = "started" /\ svc[p].stages = FastPath

\* The stage sequences one call may have gone through.
StageOrders ==
  {SubSeq(HappyPath, 1, k) : k \in 0..5}
  \cup {FastPath}
  \cup {SubSeq(HappyPath, 1, k) \o <<"Failed">> : k \in 2..4}

\* C3: one call follows CheckingLocal -> FetchingMetadata -> Downloading ->
\* Extracting -> Done without retries: at most one GET, one download and one
\* extraction, the download only after a response that yielded a tarball URL,
\* the extraction only after status COMPLETE, and nothing after a failure.
C3_StageOrder ==
  \A p \in Procs :
    /\ svc[p].stages \in StageOrders
    /\ Has(svc[p].stages, "Downloading") =>
         svc[p].metaResp = "tarball" /\ ~Falsy(svc[p].tarballUrl)
    /\ Has(svc[p].stages, "Extracting") => svc[p].downloadStatus = "COMPLETE"
    /\ Has(svc[p].stages, "Failed") => svc[p].pc = "rejected"

\* C3 witness: a call went through every stage; another failed while downloading.
C3_Witness ==
  \E p \in Procs, q \in Procs :
    /\ svc[p].stages = HappyPath
    /\ svc[q].stages = <<"CheckingLocal", "FetchingMetadata", "Downloading", "Failed">>

\* The expected file of this host.
ExpectedPath == nodePath(NodeDir, resolveNodeName(platform, arch).nodeName)

\* C4: once an acquisition has succeeded on the published archive, the file
\* <targetDir>/package/<identifier>.node is on disk, and every call whose
\* check comes later makes no network request.
C4_AcquiredThenPresent ==
  /\ acquired => ExpectedPath \in DOMAIN disk
  /\ \A p \in Procs :
       svc[p].sawAcquired =>
         /\ svc[p].localFileExisted
         /\ ~Has(svc[p].stages, "FetchingMetadata")
         /\ ~Has(svc[p].stages, "Downloading")

\* C4 witness: a call made after a successful acquisition has settled.
C4_Witness ==
  \E p \in Procs : svc[p].sawAcquired /\ svc[p].pc \in Settled

BodiesWithoutTarball == {"nodist", "notarball", "emptytarball"}

\* C5: a registry body without a tarball URL (no dist object, no
\* dist.tarball, or an empty one) makes handleFile reject with a
\* DownloadError, and no download is started.
C5_NoTarballIsDownloadError ==
  \A p \in Procs :
    svc[p].metaResp \in BodiesWithoutTarball =>
      /\ svc[p].pc = "rejected"
      /\ svc[p].hfError.class = "DownloadError"
      /\ svc[p].thrown.class = "DownloadError"
      /\ ~Has(svc[p].stages, "Downloading")
      /\ svc[p].downloadStatus = "none"

\* C5 witness: a body without a dist object was received and the call rejected.
C5_Witness ==
  \E p \in Procs : svc[p].metaResp = "nodist" /\ svc[p].pc = "rejected"

\* C6: every DownloadError of the metadata stage carries a message that
\* contains the metadata URL that was attempted.
C6_MetadataErrorNamesUrl ==
  \A p \in Procs :
    (svc[p].stages = <<"CheckingLocal", "FetchingMetadata", "Failed">>
       /\ svc[p].hfError.class = "DownloadError") =>
      IsInfix(metadataUrl(svc[p].nodeName), svc[p].hfError.payload)

\* C7: a download that ends with a status other than COMPLETE makes
\* handleFile reject with a DownloadError, and extract is never invoked.
C7_AbortedIsDownloadError ==
  \A p \in Procs :
    svc[p].downloadStatus \notin {"none", "COMPLETE"} =>
      /\ svc[p].pc = "rejected"
      /\ svc[p].hfError.class = "DownloadError"
      /\ svc[p].thrown.class = "DownloadError"
      /\ ~Has(svc[p].stages, "Extracting")
      /\ svc[p].extractFailure = "none"
      /\ ~svc[p].wrote

\* C7 witness: a download ended ABORTED and the call was rejected.
C7_Witness ==
  \E p \in Procs : svc[p].downloadStatus = "ABORTED" /\ svc[p].pc = "rejected"

\* C8: every failure of extract (read, gunzip, unpack) makes handleFile reject
\* with a DownloadError whose message preserves the cause of that stage, so
\* that two different stages give two different messages.
C8_ExtractCausePreserved ==
  /\ \A p \in Procs :
       svc[p].extractFailure \in ExtractStreams =>
         /\ svc[p].hfError.class = "DownloadError"
         /\ IsInfix(extractRejection(svc[p].extractFailure,
                                     StreamError(svc[p].extractFailure)).payload,
                    svc[p].hfError.payload)
  /\ \A p \in Procs, q \in Procs :
       (svc[p].extractFailure \in ExtractStreams /\ svc[q].extractFailure \in ExtractStreams
          /\ svc[p].extractFailure # svc[q].extractFailure) =>
         svc[p].hfError.payload # svc[q].hfError.payload

\* C9: a corrupt gzip stream makes the call reject with a DownloadError, and
\* no later call, made while no extraction is running, takes the file-exists
\* fast path on a file that is only partially extracted.
C9_NoPartialFileAsSuccess ==
  /\ [](\A p \in Procs :
          svc[p].extractFailure = "gunzip" =>
            svc[p].pc = "rejected" /\ svc[p].thrown.class = "DownloadError")
  /\ [][\A p \in Procs :
          (/\ svc[p].pc = "mkdir"
           /\ gunzipFailed
           /\ \A q \in Procs : svc[q].pc # "extracting"
           /\ fileState(disk, ExpectedPath) = "partial") =>
            svc'[p].stages # FastPath]_vars

\* C10: every failure of getNativeBinding makes start() reject with that very
\* error, the three members stay unassigned and the success message is not
\* logged.
C10_FailureAbortsStart ==
  \A p \in Procs :
    svc[p].gnbError # NoError =>
      /\ svc[p].pc = "rejected"
      /\ svc[p].thrown = svc[p].gnbError
      /\ svc[p].gnbError.class \in {"UnsupportedError", "DownloadError", "Error"}
      /\ svc[p].members = Unassigned
      /\ "success" \notin svc[p].logged

\* C10 witness: getNativeBinding failed to load a file that was on disk, and
\* start() was rejected.
C10_Witness ==
  \E p \in Procs :
    /\ svc[p].gnbError.class = "Error"
    /\ svc[p].localFileExisted
    /\ svc[p].pc = "rejected"

\* C11: a binary that is present but fails to load, or loads without all of
\* pinyin, asyncPinyin and compare, makes start-up fail with the generic load
\* error naming the file path, the OS and the architecture; start-up never
\* completes with a member missing.
C11_NoStartWithMissingMember ==
  \A p \in Procs :
    /\ svc[p].gnbError.class = "Error" =>
         /\ svc[p].pc = "rejected"
         /\ IsInfix(nodePath(NodeDir, svc[p].nodeName), svc[p].thrown.payload)
         /\ IsInfix(<<platform>>, svc[p].thrown.payload)
         /\ IsInfix(<<arch>>, svc[p].thrown.payload)
    /\ svc[p].pc = "started" => svc[p].members = FullExports

\* C12: on linux x64 and arm64 the identifier ends in musl when the libc probe
\* answered musl and in gnu when it answered glibc, the two differ only in
\* that suffix, and on linux arm the identifier is the same whatever the probe.
C12_LinuxLibcSuffix ==
  \A p \in Procs :
    (platform = "linux" /\ svc[p].nodeName # <<>>) =>
      IF arch \in {"x64", "arm64"}
      THEN /\ svc[p].probe.ran
           /\ svc[p].nodeName = <<"pinyin", ".", "linux", "-", arch, "-">>
                                \o <<IF svc[p].probe.musl THEN "musl" ELSE "gnu">>
      ELSE svc[p].nodeName = <<"pinyin", ".", "linux", "-", "arm", "-", "gnueabihf">>

\* C12 witness: the table-driven service resolved linux arm64 on a musl host.
C12_Witness ==
  \E p \in Procs :
    /\ impl = "table" /\ platform = "linux" /\ arch = "arm64"
    /\ svc[p].probe.ran /\ svc[p].probe.musl
    /\ svc[p].nodeName = <<"pinyin", ".", "linux", "-", "arm64", "-", "musl">>

\* C13: isMusl decides by the runtime report alone when it is available (musl
\* iff the report has no glibcVersionRuntime) and does not go to ldd; without
\* the report it answers true iff the ldd file contains 'musl', and true when
\* ldd cannot be located or read.
C13_ProbeOrder ==
  \A p \in Procs :
    svc[p].probe.ran =>
      IF report # "unavailable"
      THEN /\ ~svc[p].probe.lddRead
           /\ svc[p].probe.musl <=> (report = "noglibc")
      ELSE /\ svc[p].probe.lddRead
           /\ ldd = "fail" => svc[p].probe.musl
           /\ ldd # "fail" => (svc[p].probe.musl <=> (ldd = "musl"))

\* C13 witness: on a host without process.report, ldd could not be read and
\* the probe answered musl.
C13_Witness ==
  \E p \in Procs :
    /\ report = "unavailable" /\ ldd = "fail"
    /\ svc[p].probe.ran /\ svc[p].probe.lddRead /\ svc[p].probe.musl

\* C15: on every (platform, architecture, libc probe) the table-driven and the
\* nested-switch resolver either select the same identifier and the same
\* expected file path, or both throw an UnsupportedError.  (Compared pair by
\* pair in the initial states, which hold every host and every probe, and on
\* the resolution each call has made.)
C15_ResolversAgree ==
  /\ starts = 0 =>
     \A h \in Platforms \X Archs :
       LET t == resolveNodeName(h[1], h[2])
           w == resolveNodeNameSwitch(h[1], h[2])
       IN /\ t.ok <=> w.ok
          /\ t.ok => /\ t.nodeName = w.nodeName
                     /\ nodePath(NodeDir, t.nodeName) = nodePath(NodeDir, w.nodeName)
          /\ ~t.ok => t.err.class = "UnsupportedError" /\ w.err.class = "UnsupportedError"
  /\ \A p \in Procs :
       Resolved(p) =>
         LET t == resolveNodeName(platform, arch)
             w == resolveNodeNameSwitch(platform, arch)
         IN /\ svc[p].nodeName = t.nodeName
            /\ svc[p].nodeName = w.nodeName
            /\ (svc[p].gnbError.class = "UnsupportedError") <=> ~t.ok
            /\ (svc[p].gnbError.class = "UnsupportedError") <=> ~w.ok

\* C15 witness: the nested-switch service resolved the identifier the table gives.
C15_Witness ==
  \E p \in Procs :
    /\ impl = "switch"
    /\ svc[p].nodeName # <<>>
    /\ svc[p].nodeName = resolveNodeName(platform, arch).nodeName

\* Another call than p is unpacking the expected file.
OtherExtracting(p) ==
  \E q \in Procs \ {p} :
    svc[q].pc = "extracting" /\ unpackedPath(svc[q]) = ExpectedPath

\* p's getNativeBinding runs its existence check in this step.
Checks(p) == svc[p].pc = "mkdir" /\ svc'[p].stages # <<>>

\* C14: with two start-ups running the acquisition concurrently, no caller
\* takes the file-exists fast path and loads the expected file while the
\* other caller's extraction of that file is still in progress.
C14_NoFastPathDuringExtraction ==
  [][\A p \in Procs :
       (Checks(p) /\ OtherExtracting(p)) => svc'[p].stages # FastPath]_vars

\* C14 as amended: a caller whose check runs during the other caller's
\* extraction takes the fast path exactly when that extraction has already
\* created the expected file; otherwise it starts an acquisition of its own.
C14_FastPathIffFileCreated ==
  [][\A p \in Procs :
       (Checks(p) /\ OtherExtracting(p)) =>
         IF fileState(disk, ExpectedPath) = "absent"
         THEN /\ ~svc'[p].localFileExisted
              /\ Has(svc'[p].stages, "FetchingMetadata")
         ELSE /\ svc'[p].localFileExisted
              /\ svc'[p].stages = FastPath]_vars

\* C14 witness: two calls in all; one is still unpacking the file it has
\* created, the other has taken the fast path on that file.
C14_Witness ==
  \E p \in Procs, q \in Procs :
    /\ p # q /\ starts = 2
    /\ svc[q].pc = "extracting" /\ svc[q].wrote
    /\ unpackedPath(svc[q]) = ExpectedPath
    /\ svc[p].stages = FastPath
    /\ svc[p].pc \in Settled

\* A call that has returned on a supported platform, found the expected file
\* absent, and met no failure of the registry, the transfer, the archive,
\* the directory or the loaded module.
HealthySettled(p) ==
  /\ svc[p].pc \in Settled
  /\ svc[p].nodeName # <<>>
  /\ ~svc[p].localFileExisted
  /\ ~svc[p].fault

\* C16: in both implementations, on a supported platform with the expected
\* file absent and the registry, the transfer and the archive healthy,
\* startup invokes the acquirer, the acquisition reaches Done, and the
\* binding is loaded from the expected path.
C16_HealthyStartLoads ==
  \A p \in Procs :
    HealthySettled(p) =>
      /\ svc[p].stages = HappyPath
      /\ svc[p].pc = "started"
      /\ svc[p].members = FullExports
      /\ unpackedPath(svc[p]) = nodePath(NodeDir, svc[p].nodeName)

====
